---- MODULE Spec2Model ----
(***************************************************************************)
(* Model of the navlink tooling:                                           *)
(*   check_navlink_crcs.py  - the CRC consistency checker                  *)
(*   test_navlink_msg.py    - the two-vehicle message conformance harness  *)
(* The module holds one set of variables and several specifications, one   *)
(* per engine: SpecCompare (compare_crcs), SpecParse (parse_c_header_crcs),*)
(* SpecCheck (the checker's main), SpecSession (one SimpleVehicle driven   *)
(* through its public methods) and SpecHarness (the harness's main).       *)
(***************************************************************************)
EXTENDS Integers, Sequences, FiniteSets, TLC

VARIABLES
    \* ---- compare_crcs applied to a pair of tables
    cmpIn,        \* the call's arguments: names and tables
    cmpAB,        \* compare_crcs(nameA, A, nameB, B) once called
    cmpBA,        \* compare_crcs(nameB, B, nameA, A) once called
    \* ---- parse_c_header_crcs applied to a header file
    hdr,          \* the header file: exists, content
    parsed,       \* the call's result once called
    \* ---- check_navlink_crcs.main
    cpc,          \* position of main
    sources,      \* main's `sources` dict
    pair_i,       \* main's position in `pairs` (1-based)
    all_errors,   \* main's `all_errors` list
    cexit,        \* main's return value (the process exit code)
    \* ---- SimpleVehicle objects of test_navlink_msg.py, by vehicle
    conn,         \* self._conn: "none", "open" or "closed"
    stop_evt,     \* self._stop_evt is set
    reader_th,    \* self._reader_th: 0 (None) or the index of a thread
    callbacks,    \* self._callbacks: key -> list of callbacks
    lock,         \* self._lock (an RLock): owner and depth
    threads,      \* every reader thread ever started, by index
    call,         \* the method each driver thread executes, and where it is
    \* ---- the network around the vehicles
    inbox,        \* messages that arrived on a connection and were not read
    wire,         \* what was written to a connection, chunk by chunk
    nstray,       \* target-type messages the peers sent so far
    \* ---- test_navlink_msg.main
    hargs,        \* the command line
    mpc,          \* position of main
    received,     \* main's `received` list
    sent_at,      \* len(received) when send_message returned (-1: not yet)
    routed,       \* the router forwarded the sent message
    mexit         \* main's return value (the process exit code)

cmpVars   == <<cmpIn, cmpAB, cmpBA>>
parseVars == <<hdr, parsed>>
checkVars == <<cpc, sources, pair_i, all_errors, cexit>>
sessVars  == <<conn, stop_evt, reader_th, callbacks, lock, threads, call>>
netVars   == <<inbox, wire, nstray>>
mainVars  == <<hargs, mpc, received, sent_at, routed, mexit>>
\* main's variables but its position, which the caller of a method sets
mainRest  == <<hargs, received, sent_at, routed, mexit>>
harnessVars == <<sessVars, netVars, mainVars>>
vars == <<cmpVars, parseVars, checkVars, sessVars, netVars, mainVars>>

----------------------------------------------------------------------------
(* Bounds of the model *)

\* how many catalog ids (the lowest ones) the drawn inputs range over
NumIds == 2
\* integrity codes of the drawn inputs range over 1..MaxCrc
MaxCrc == 2
\* a drawn header file holds at most MaxTokens tokens
MaxTokens == 3
\* a connection buffers at most MaxInbox unread messages
MaxInbox == 1
\* the peers send at most MaxStray messages of the target type
MaxStray == 1
\* at most MaxThreads reader threads are ever started
MaxThreads == 2
\* at most MaxRegs callbacks are registered on a vehicle
MaxRegs == 2
\* at most MaxSends messages are written to a connection
MaxSends == 2

----------------------------------------------------------------------------
(* Message Catalog *)

NAVLINK_MESSAGES ==
    [n \in {"CHECK_IN", "CHECK_OUT", "SWARM_HEARTBEAT", "AVAILABLE_TASK_REQUEST",
            "AVAILABLE_TASK_RESPONSE", "TASK_ASSIGN_REQUEST", "TASK_ASSIGN_RESPONSE",
            "TASK_CONFIRM_REQUEST", "TASK_CONFIRM_RESPONSE", "SLOT_HEARTBEAT",
            "SLOT_CLAIM", "VOTE_PHASE", "SEARCH_STATUS"} |->
        CASE n = "CHECK_IN" -> 25002
          [] n = "CHECK_OUT" -> 25003
          [] n = "SWARM_HEARTBEAT" -> 25004
          [] n = "AVAILABLE_TASK_REQUEST" -> 25104
          [] n = "AVAILABLE_TASK_RESPONSE" -> 25105
          [] n = "TASK_ASSIGN_REQUEST" -> 25106
          [] n = "TASK_ASSIGN_RESPONSE" -> 25107
          [] n = "TASK_CONFIRM_REQUEST" -> 25108
          [] n = "TASK_CONFIRM_RESPONSE" -> 25109
          [] n = "SLOT_HEARTBEAT" -> 25200
          [] n = "SLOT_CLAIM" -> 25201
          [] n = "VOTE_PHASE" -> 25202
          [] n = "SEARCH_STATUS" -> 25300]

\* NAVLINK_MESSAGES.values()
CatalogIds == {NAVLINK_MESSAGES[n] : n \in DOMAIN NAVLINK_MESSAGES}

\* [k for k, v in NAVLINK_MESSAGES.items() if v == msg_id][0]
NameOfId(msg_id) == CHOOSE n \in DOMAIN NAVLINK_MESSAGES : NAVLINK_MESSAGES[n] = msg_id

\* the catalog ids and names the drawn inputs range over
FirstId == 25002
TestIds == {i \in CatalogIds : i < FirstId + NumIds}
TestNames == {n \in DOMAIN NAVLINK_MESSAGES : NAVLINK_MESSAGES[n] \in TestIds}
\* ids that are in no catalog entry
ForeignIds == {1}

----------------------------------------------------------------------------
(* Source tables.  A source is None or a dict msg_id -> {name, crc, len}.  *)

None == [present |-> FALSE, tbl |-> <<>>]
Table(t) == [present |-> TRUE, tbl |-> t]
Keys(s) == DOMAIN s.tbl
\* Python truthiness of a source: None and the empty dict are falsy
Truthy(s) == s.present /\ Keys(s) # {}

Descriptor(id, crc, len) == [name |-> NameOfId(id), crc |-> crc, len |-> len]

\* sorted(S) for a finite set of integers
RECURSIVE sorted(_)
sorted(S) ==
    IF S = {} THEN <<>>
    ELSE LET m == CHOOSE x \in S : \A y \in S : x <= y
         IN  <<m>> \o sorted(S \ {m})

----------------------------------------------------------------------------
(* compare_crcs *)

\* the `issue` text of an error, kept as its parts
MissingIssue(source_name) ==
    [text |-> "Missing in", s1 |-> source_name, c1 |-> 0, s2 |-> "", c2 |-> 0]
MismatchIssue(source1_name, crc1, source2_name, crc2) ==
    [text |-> "CRC mismatch", s1 |-> source1_name, c1 |-> crc1,
     s2 |-> source2_name, c2 |-> crc2]

Error(msg_id, name, issue) == [msg_id |-> msg_id, name |-> name, issue |-> issue]

\* mutant: a length difference counts as a mismatch too
EntriesDiffer_len(s1, s2) == s1.crc # s2.crc \/ s1.len # s2.len
\* the test of line 141: only the crc is compared
EntriesDiffer(s1, s2) == s1.crc # s2.crc

\* mutant: the second branch names the wrong source
CompareOne_swapped(msg_id, source1_name, source1_crcs, source2_name, source2_crcs) ==
    IF msg_id \notin DOMAIN source1_crcs
    THEN <<Error(msg_id, source2_crcs[msg_id].name, MissingIssue(source1_name))>>
    ELSE IF msg_id \notin DOMAIN source2_crcs
    THEN <<Error(msg_id, source1_crcs[msg_id].name, MissingIssue(source1_name))>>
    ELSE LET s1 == source1_crcs[msg_id]
             s2 == source2_crcs[msg_id]
         IN  IF EntriesDiffer(s1, s2)
             THEN <<Error(msg_id, s1.name,
                          MismatchIssue(source1_name, s1.crc, source2_name, s2.crc))>>
             ELSE <<>>
\* the body of the loop of compare_crcs: the errors appended for one msg_id
CompareOne(msg_id, source1_name, source1_crcs, source2_name, source2_crcs) ==
    IF msg_id \notin DOMAIN source1_crcs
    THEN <<Error(msg_id, source2_crcs[msg_id].name, MissingIssue(source1_name))>>
    ELSE IF msg_id \notin DOMAIN source2_crcs
    THEN <<Error(msg_id, source1_crcs[msg_id].name, MissingIssue(source2_name))>>
    ELSE LET s1 == source1_crcs[msg_id]
             s2 == source2_crcs[msg_id]
         IN  IF EntriesDiffer(s1, s2)
             THEN <<Error(msg_id, s1.name,
                          MismatchIssue(source1_name, s1.crc, source2_name, s2.crc))>>
             ELSE <<>>

\* the loop of compare_crcs over a list of ids
RECURSIVE CompareLoop(_, _, _, _, _)
CompareLoop(ids, source1_name, source1_crcs, source2_name, source2_crcs) ==
    IF ids = <<>> THEN <<>>
    ELSE CompareOne(Head(ids), source1_name, source1_crcs, source2_name, source2_crcs)
         \o CompareLoop(Tail(ids), source1_name, source1_crcs, source2_name, source2_crcs)

\* mutant: the ids are visited in descending order
RECURSIVE IdOrder_desc(_)
IdOrder_desc(all_ids) ==
    IF all_ids = {} THEN <<>>
    ELSE LET m == CHOOSE x \in all_ids : \A y \in all_ids : x >= y
         IN  <<m>> \o IdOrder_desc(all_ids \ {m})
\* `for msg_id in sorted(all_ids)`
IdOrder(all_ids) == sorted(all_ids)

\* compare_crcs returns the pair (errors, warnings)
compare_crcs(source1_name, source1_crcs, source2_name, source2_crcs) ==
    IF ~source1_crcs.present \/ ~source2_crcs.present
    THEN [errors |-> <<>>, warnings |-> <<>>]
    ELSE LET all_ids == Keys(source1_crcs) \cup Keys(source2_crcs)
         IN  [errors |-> CompareLoop(IdOrder(all_ids), source1_name, source1_crcs.tbl,
                                     source2_name, source2_crcs.tbl),
              warnings |-> <<>>]

----------------------------------------------------------------------------
(* Drawn inputs *)

SourceNames == {"pymavlink", "ardupilot", "router"}
\* the lengths of drawn descriptors
Lens == {20, 24}
Crcs == 1..MaxCrc

\* every dict over a subset of ids
TablesOver(ids) ==
    UNION {[K -> [name : DOMAIN NAVLINK_MESSAGES, crc : Crcs, len : Lens]] :
           K \in SUBSET ids}
\* the dicts an extractor can return: each entry carries its catalog name
DrawnTables == {t \in TablesOver(TestIds) : \A i \in DOMAIN t : t[i].name = NameOfId(i)}
DrawnSources == {None} \cup {Table(t) : t \in DrawnTables}

----------------------------------------------------------------------------
(* SpecCompare: compare_crcs called both ways round on a drawn pair *)

NotCalled == [called |-> FALSE, errors |-> <<>>, warnings |-> <<>>]
Returned(r) == [called |-> TRUE, errors |-> r.errors, warnings |-> r.warnings]

CmpIdle == cmpIn = [nameA |-> "", A |-> None, nameB |-> "", B |-> None]
           /\ cmpAB = NotCalled /\ cmpBA = NotCalled
ParseIdle == hdr = [exists |-> FALSE, content |-> <<>>]
             /\ parsed = [called |-> FALSE, val |-> None]
CheckIdle == cpc = "off" /\ sources = <<>> /\ pair_i = 0 /\ all_errors = <<>>
             /\ cexit = -1
\* the harness is not running: no vehicle was constructed
HarnessIdle ==
    /\ conn = <<>> /\ stop_evt = <<>> /\ reader_th = <<>> /\ callbacks = <<>>
    /\ lock = <<>> /\ threads = <<>> /\ call = <<>>
    /\ inbox = <<>> /\ wire = <<>> /\ nstray = 0
    /\ hargs = "" /\ mpc = "off" /\ received = <<>> /\ sent_at = -1
    /\ routed = FALSE /\ mexit = -1

InitCompare ==
    /\ cmpIn \in [nameA : {"pymavlink"}, A : DrawnSources,
                   nameB : {"ardupilot", "router"}, B : DrawnSources]
    /\ cmpAB = NotCalled /\ cmpBA = NotCalled
    /\ ParseIdle /\ CheckIdle /\ HarnessIdle

CallCompareAB ==
    /\ cmpIn.nameA # "" /\ ~cmpAB.called
    /\ cmpAB' = Returned(compare_crcs(cmpIn.nameA, cmpIn.A, cmpIn.nameB, cmpIn.B))
    /\ UNCHANGED <<cmpIn, cmpBA, parseVars, checkVars, harnessVars>>

CallCompareBA ==
    /\ cmpIn.nameA # "" /\ ~cmpBA.called
    /\ cmpBA' = Returned(compare_crcs(cmpIn.nameB, cmpIn.B, cmpIn.nameA, cmpIn.A))
    /\ UNCHANGED <<cmpIn, cmpAB, parseVars, checkVars, harnessVars>>

NextCompare == CallCompareAB \/ CallCompareBA
SpecCompare == InitCompare /\ [][NextCompare]_vars

----------------------------------------------------------------------------
(* parse_c_header_crcs.  The header text is kept as its tokens:            *)
(*   "open"   the text the regex of line 94 matches,                       *)
(*            `#define MAVLINK_MESSAGE_CRCS {{` (less its last brace),      *)
(*   "entry"  a text the regex of line 100 matches, a 7-tuple              *)
(*            {msg_id, crc, min_len, max_len, flags, ofs, ofs},            *)
(*   "close"  the brace that ends the array opened by "open".              *)

NoFields == [msg_id |-> 0, crc |-> 0, min_len |-> 0, max_len |-> 0]
OpenTok == [kind |-> "open", f |-> NoFields]
CloseTok == [kind |-> "close", f |-> NoFields]
EntryTok(msg_id, crc, min_len, max_len) ==
    [kind |-> "entry",
     f |-> [msg_id |-> msg_id, crc |-> crc, min_len |-> min_len, max_len |-> max_len]]

\* re.search(r'#define MAVLINK_MESSAGE_CRCS\s*\{\{', content)
SearchDefine(content) == \E i \in DOMAIN content : content[i].kind = "open"

\* re.findall(<7-tuple>, content): every entry of the whole content, in order
FindAllEntries(content) == SelectSeq(content, LAMBDA t : t.kind = "entry")

\* mutant: min_len is stored as the length
EntryDescriptor_min(f) == [name |-> NameOfId(f.msg_id), crc |-> f.crc, len |-> f.min_len]
\* the dict stored for one entry (lines 107-111)
EntryDescriptor(f) == [name |-> NameOfId(f.msg_id), crc |-> f.crc, len |-> f.max_len]

\* the loop of lines 100-111 over the entries found: a later entry of an id
\* replaces an earlier one
RECURSIVE ParseLoop(_, _)
ParseLoop(entries, crcs) ==
    IF entries = <<>> THEN crcs
    ELSE LET f == Head(entries).f
         IN  IF f.msg_id \in CatalogIds
             THEN ParseLoop(Tail(entries),
                            [i \in DOMAIN crcs \cup {f.msg_id} |->
                                IF i = f.msg_id THEN EntryDescriptor(f) ELSE crcs[i]])
             ELSE ParseLoop(Tail(entries), crcs)

\* mutant: a file without the definition is scanned for entries all the same
parse_c_header_crcs_scan(file) ==
    IF ~file.exists THEN None
    ELSE Table(ParseLoop(FindAllEntries(file.content), <<>>))
parse_c_header_crcs(file) ==
    IF ~file.exists THEN None
    ELSE IF ~SearchDefine(file.content) THEN None
    ELSE Table(ParseLoop(FindAllEntries(file.content), <<>>))

\* drawn header files
DrawnTokens ==
    {OpenTok, CloseTok}
    \cup {EntryTok(i, c, 20, 24) : i \in TestIds \cup ForeignIds, c \in Crcs}
DrawnContents == UNION {[1..n -> DrawnTokens] : n \in 0..MaxTokens}
DrawnFiles ==
    {[exists |-> FALSE, content |-> <<>>]}
    \cup {[exists |-> TRUE, content |-> c] : c \in DrawnContents}

(* SpecParse: parse_c_header_crcs called on a drawn header file *)

InitParse ==
    /\ hdr \in DrawnFiles
    /\ parsed = [called |-> FALSE, val |-> None]
    /\ CmpIdle /\ CheckIdle /\ HarnessIdle

CallParse ==
    /\ cpc = "off" /\ ~parsed.called
    /\ parsed' = [called |-> TRUE, val |-> parse_c_header_crcs(hdr)]
    /\ UNCHANGED <<hdr, cmpVars, checkVars, harnessVars>>

NextParse == CallParse
SpecParse == InitParse /\ [][NextParse]_vars

----------------------------------------------------------------------------
(* get_pymavlink_crcs.  The dialect module is importable or not and holds a *)
(* message class for some of the catalog names.                             *)

\* struct.calcsize of one format character after 'Z' was replaced by 's'
\* (0: not a format character, struct.error)
StructSize(ch) ==
    CASE ch \in {"b", "B", "c", "s"} -> 1
      [] ch \in {"h", "H"} -> 2
      [] ch \in {"i", "I", "f"} -> 4
      [] ch \in {"q", "Q", "d"} -> 8
      [] OTHER -> 0

RECURSIVE SumSeq(_)
SumSeq(q) == IF q = <<>> THEN 0 ELSE Head(q) + SumSeq(Tail(q))

\* struct.calcsize('<' + native_format.replace('Z', 's')) inside try/except:
\* the size, or 0 when the call raises (msg_len keeps its initial 0)
NativeLen(native_format) ==
    LET fmt == [i \in DOMAIN native_format |->
                   IF native_format[i] = "Z" THEN "s" ELSE native_format[i]]
    IN  IF \E i \in DOMAIN fmt : StructSize(fmt[i]) = 0 THEN 0
        ELSE SumSeq([i \in DOMAIN fmt |-> StructSize(fmt[i])])

\* type_sizes.get(base, 4)
TypeSize(base) ==
    CASE base \in {"uint8_t", "int8_t", "char"} -> 1
      [] base \in {"uint16_t", "int16_t"} -> 2
      [] base \in {"uint32_t", "int32_t", "float"} -> 4
      [] base \in {"uint64_t", "int64_t", "double"} -> 8
      [] OTHER -> 4

\* the fallback of lines 64-74; a field type is base or base[count]
FieldTypesLen(fieldtypes) ==
    SumSeq([i \in DOMAIN fieldtypes |->
               IF fieldtypes[i].array
               THEN TypeSize(fieldtypes[i].base) * fieldtypes[i].count
               ELSE TypeSize(fieldtypes[i].base)])

\* msg_len of lines 56-74
MsgLen(msg_class) ==
    LET fromFormat == IF msg_class.has_native_format
                      THEN NativeLen(msg_class.native_format) ELSE 0
    IN  IF fromFormat = 0 THEN FieldTypesLen(msg_class.fieldtypes) ELSE fromFormat

\* the name-derivation rule f"MAVLink_{name.lower()}_message": the module's
\* classes are kept under the catalog name they derive from
HasClass(mav, name) == name \in DOMAIN mav.classes

get_pymavlink_crcs(mav) ==
    IF ~mav.importable THEN None
    ELSE LET found == {n \in DOMAIN NAVLINK_MESSAGES : HasClass(mav, n)}
         IN  Table([i \in {NAVLINK_MESSAGES[n] : n \in found} |->
                      LET msg_class == mav.classes[NameOfId(i)]
                      IN  [name |-> NameOfId(i), crc |-> msg_class.crc_extra,
                           len |-> MsgLen(msg_class)]])

\* drawn dialect modules: the layout of a message is fixed by its definition,
\* the integrity code is what the generators may disagree on
Field(base) == [base |-> base, array |-> FALSE, count |-> 0]
ArrayField(base, count) == [base |-> base, array |-> TRUE, count |-> count]
LayoutOf(name) ==
    CASE name = "CHECK_IN" ->
           [has_native_format |-> TRUE, native_format |-> <<"I", "H", "Z">>,
            fieldtypes |-> <<Field("uint32_t"), Field("uint16_t"), Field("char")>>]
      [] name = "CHECK_OUT" ->
           [has_native_format |-> TRUE, native_format |-> <<"I", "?">>,
            fieldtypes |-> <<Field("uint32_t"), ArrayField("char", 16)>>]
      [] OTHER ->
           [has_native_format |-> FALSE, native_format |-> <<>>,
            fieldtypes |-> <<Field("uint8_t"), Field("mystery_t")>>]
DrawnClass(name, crc) ==
    [crc_extra |-> crc,
     has_native_format |-> LayoutOf(name).has_native_format,
     native_format |-> LayoutOf(name).native_format,
     fieldtypes |-> LayoutOf(name).fieldtypes]
DrawnModules ==
    {[importable |-> FALSE, classes |-> <<>>]}
    \cup {[importable |-> TRUE, classes |-> [n \in K |-> DrawnClass(n, c[n])]] :
           K \in SUBSET TestNames, c \in [TestNames -> Crcs]}

\* what the two extractors return over the drawn inputs
PymavlinkResults == {get_pymavlink_crcs(m) : m \in DrawnModules}
HeaderResults == {parse_c_header_crcs(f) : f \in DrawnFiles}

----------------------------------------------------------------------------
(* SpecCheck: main of check_navlink_crcs.py *)

pairs == << <<"pymavlink", "ardupilot">>, <<"pymavlink", "router">>,
            <<"ardupilot", "router">> >>

\* sources[name] = value
SetSource(name, value) ==
    [n \in DOMAIN sources \cup {name} |-> IF n = name THEN value ELSE sources[n]]

InitCheck ==
    /\ cpc = "pymavlink" /\ sources = <<>> /\ pair_i = 0 /\ all_errors = <<>>
    /\ cexit = -1
    /\ CmpIdle /\ ParseIdle /\ HarnessIdle

\* line 185: sources['pymavlink'] = get_pymavlink_crcs()
MainPymavlink ==
    /\ cpc = "pymavlink"
    /\ \E r \in PymavlinkResults : sources' = SetSource("pymavlink", r)
    /\ cpc' = "ardupilot"
    /\ UNCHANGED <<pair_i, all_errors, cexit, cmpVars, parseVars, harnessVars>>

\* line 198: sources['ardupilot'] = parse_c_header_crcs(ardupilot_header)
MainArdupilot ==
    /\ cpc = "ardupilot"
    /\ \E r \in HeaderResults : sources' = SetSource("ardupilot", r)
    /\ cpc' = "router"
    /\ UNCHANGED <<pair_i, all_errors, cexit, cmpVars, parseVars, harnessVars>>

\* line 211: sources['router'] = parse_c_header_crcs(router_header)
MainRouter ==
    /\ cpc = "router"
    /\ \E r \in HeaderResults : sources' = SetSource("router", r)
    /\ cpc' = "pairs" /\ pair_i' = 1
    /\ UNCHANGED <<all_errors, cexit, cmpVars, parseVars, harnessVars>>

\* line 241: `if sources.get(name1) and sources.get(name2)`
PairCompared(name1, name2) == Truthy(sources[name1]) /\ Truthy(sources[name2])

\* one turn of the loop of lines 240-249
MainPair ==
    /\ cpc = "pairs"
    /\ LET name1 == pairs[pair_i][1]
           name2 == pairs[pair_i][2]
       IN  IF PairCompared(name1, name2)
           THEN all_errors' = all_errors \o
                    compare_crcs(name1, sources[name1], name2, sources[name2]).errors
           ELSE all_errors' = all_errors
    /\ IF pair_i < Len(pairs)
       THEN pair_i' = pair_i + 1 /\ cpc' = cpc
       ELSE pair_i' = pair_i /\ cpc' = "summary"
    /\ UNCHANGED <<sources, cexit, cmpVars, parseVars, harnessVars>>

\* lines 252-266: the verdict
MainSummary ==
    /\ cpc = "summary"
    /\ cexit' = IF all_errors # <<>> THEN 1 ELSE 0
    /\ cpc' = "done"
    /\ UNCHANGED <<sources, pair_i, all_errors, cmpVars, parseVars, harnessVars>>

NextCheck == MainPymavlink \/ MainArdupilot \/ MainRouter \/ MainPair \/ MainSummary
SpecCheck == InitCheck /\ [][NextCheck]_vars

----------------------------------------------------------------------------
(* test_navlink_msg.py: messages, callbacks, frames *)

otherVars == <<cmpVars, parseVars, checkVars>>

\* the vehicles main creates, and their source_system (lines 278-279)
Vehicles == {1, 2}
SysId(v) == 250 + v
\* the system ids of the peers behind the router (lines 294-295)
PeerSysIds == {1, 2}
\* target_msg_type = args.message.upper(), for the drawn command line
TargetType == "CHECK_IN"

\* a message: get_type(), get_srcSystem(), to_dict()
NoMsg == [type |-> "", src |-> 0, data |-> ""]
Heartbeat(src) == [type |-> "HEARTBEAT", src |-> src, data |-> "heartbeat"]
PeerTarget(src) == [type |-> TargetType, src |-> src, data |-> "peer"]
\* the message create_message builds, as sent by vehicle v
BuiltMsg(v) == [type |-> TargetType, src |-> SysId(v), data |-> "params"]
\* what the peers send on their own
PeerMsgs == {Heartbeat(src) : src \in PeerSysIds} \cup {PeerTarget(1)}

\* a callback: a handler made by create_handler(vehicle_id), or a probe
\* callback of a test, which may raise
Handler(vehicle_id) == [kind |-> "handler", id |-> vehicle_id]
Probe(n) == [kind |-> "probe", id |-> n]
\* whether a call of the callback can raise an Exception
CanRaise(cb) == IF cb.kind = "probe" THEN {FALSE, TRUE} ELSE {FALSE}

\* self._callbacks.get(key, [])
Get(cbs, key) == IF key \in DOMAIN cbs THEN cbs[key] ELSE <<>>

\* mutant: the wildcard callbacks are put first
DispatchList_wildfirst(cbs, mtype) == Get(cbs, "*") \o Get(cbs, mtype)
\* line 122: self._callbacks.get(mtype, []) + self._callbacks.get("*", [])
DispatchList(cbs, mtype) == Get(cbs, mtype) \o Get(cbs, "*")

\* the frame of a method call of a driver thread; `seen` records, for a
\* wait_heartbeat_from in progress, that a HEARTBEAT of its target has
\* arrived on the connection
IdleFrame ==
    [op |-> "idle", v |-> 0, pc |-> "idle", target |-> 0, msg |-> NoMsg, ret |-> "",
     seen |-> FALSE]
Frame(op, v, pc, target, msg) ==
    [op |-> op, v |-> v, pc |-> pc, target |-> target, msg |-> msg, ret |-> "",
     seen |-> FALSE]
\* the frame after `return value` (or after an exception left the method)
Return(f, value) ==
    [op |-> f.op, v |-> f.v, pc |-> "ret", target |-> 0, msg |-> NoMsg, ret |-> value,
     seen |-> FALSE]
\* a HEARTBEAT of the system is queued on the connection of the vehicle
Queued(v, sysid) == \E i \in DOMAIN inbox[v] : inbox[v][i] = Heartbeat(sysid)
\* the driver thread is between two calls
CanCall(c) == call[c].pc \in {"idle", "ret"}
In(c, op, pc) == call[c].op = op /\ call[c].pc = pc

\* a reader thread: where _reader_loop is, the message it dispatches, the
\* callbacks still to call and those called for this message, the registry
\* the list of line 122 was built from, which call of this message raised
\* first (0: none), and whether a callback raised for an earlier message
NewThread(v) ==
    [veh |-> v, pc |-> "loop", msg |-> NoMsg, todo |-> <<>>, done |-> <<>>,
     snap |-> <<>>, raised_at |-> 0, faulted_before |-> FALSE]

FreeLock == [owner |-> "", depth |-> 0]

\* __init__ of every vehicle of V, and the driver threads C
SessInit(V, C) ==
    /\ conn = [v \in V |-> "none"]
    /\ stop_evt = [v \in V |-> FALSE]
    /\ reader_th = [v \in V |-> 0]
    /\ callbacks = [v \in V |-> <<>>]
    /\ lock = [v \in V |-> FreeLock]
    /\ threads = <<>>
    /\ call = [c \in C |-> IdleFrame]
    /\ inbox = [v \in V |-> <<>>]
    /\ wire = [v \in V |-> <<>>]
    /\ nstray = 0

----------------------------------------------------------------------------
(* SimpleVehicle.connect *)

\* lines 91-99: the connection is opened
connect(c, v, wait_heartbeat) ==
    /\ CanCall(c)
    /\ conn' = [conn EXCEPT ![v] = "open"]
    /\ inbox' = [inbox EXCEPT ![v] = <<>>]
    /\ call' = [call EXCEPT ![c] =
                  Frame("connect", v, IF wait_heartbeat THEN "wait_heartbeat" ELSE "start",
                        0, NoMsg)]
    /\ UNCHANGED <<stop_evt, reader_th, callbacks, lock, threads, wire, nstray,
                   mainRest, otherVars>>

\* line 103, self._conn.wait_heartbeat(timeout): one message is read; a
\* HEARTBEAT ends the wait, any other message is dropped
connect_wait_heartbeat(c) ==
    LET v == call[c].v
    IN  /\ In(c, "connect", "wait_heartbeat")
        /\ conn[v] = "open" /\ inbox[v] # <<>>
        /\ inbox' = [inbox EXCEPT ![v] = Tail(@)]
        /\ call' = [call EXCEPT ![c].pc =
                      IF Head(inbox[v]).type = "HEARTBEAT" THEN "start" ELSE @]
        /\ UNCHANGED <<conn, stop_evt, reader_th, callbacks, lock, threads, wire,
                       nstray, mainVars, otherVars>>

\* mutant: a connect whose wait timed out starts the reader thread all the same
connect_timeout_starts(c) ==
    LET v == call[c].v
    IN  /\ In(c, "connect", "wait_heartbeat")
        /\ threads' = Append(threads, NewThread(v))
        /\ reader_th' = [reader_th EXCEPT ![v] = Len(threads) + 1]
        /\ call' = [call EXCEPT ![c] = Return(@, "False")]
        /\ UNCHANGED <<conn, stop_evt, callbacks, lock, netVars, mainVars, otherVars>>
\* lines 106-108: the wait timed out, connect returns False
connect_timeout(c) ==
    /\ In(c, "connect", "wait_heartbeat")
    /\ call' = [call EXCEPT ![c] = Return(@, "False")]
    /\ UNCHANGED <<conn, stop_evt, reader_th, callbacks, lock, threads, netVars,
                   mainVars, otherVars>>

\* lines 110-112: the reader thread is created and started
connect_start(c) ==
    LET v == call[c].v
    IN  /\ In(c, "connect", "start")
        /\ threads' = Append(threads, NewThread(v))
        /\ reader_th' = [reader_th EXCEPT ![v] = Len(threads) + 1]
        /\ call' = [call EXCEPT ![c] = Return(@, "True")]
        /\ UNCHANGED <<conn, stop_evt, callbacks, lock, netVars, mainVars, otherVars>>

----------------------------------------------------------------------------
(* SimpleVehicle._reader_loop, for the thread of index t *)

\* mutant: the loop never tests the stop flag
reader_loop_test_forever(t) ==
    LET th == threads[t]
    IN  /\ \/ th.pc = "loop"
           \/ th.pc = "dispatch" /\ th.todo = <<>>
        /\ threads' = [threads EXCEPT ![t] =
               [th EXCEPT !.pc = "recv",
                          !.msg = NoMsg, !.done = <<>>, !.snap = <<>>,
                          !.raised_at = 0,
                          !.faulted_before = @ \/ th.raised_at # 0]]
        /\ UNCHANGED <<conn, stop_evt, reader_th, callbacks, lock, call, netVars,
                       mainVars, otherVars>>
\* line 115 (reached at the start and after the for loop of line 122 ended)
reader_loop_test(t) ==
    LET th == threads[t]
    IN  /\ \/ th.pc = "loop"
           \/ th.pc = "dispatch" /\ th.todo = <<>>
        /\ threads' = [threads EXCEPT ![t] =
               [th EXCEPT !.pc = IF stop_evt[th.veh] THEN "exit" ELSE "recv",
                          !.msg = NoMsg, !.done = <<>>, !.snap = <<>>,
                          !.raised_at = 0,
                          !.faulted_before = @ \/ th.raised_at # 0]]
        /\ UNCHANGED <<conn, stop_evt, reader_th, callbacks, lock, call, netVars,
                       mainVars, otherVars>>

\* lines 117-122: recv_match raises on a connection that is not open (the
\* handler of line 127 loops again), returns None on a timeout (line 119), or
\* returns the next message, and the list of callbacks is built
reader_loop_recv(t) ==
    LET th == threads[t]
        v == th.veh
    IN  /\ th.pc = "recv"
        /\ IF conn[v] # "open" \/ inbox[v] = <<>>
           THEN /\ threads' = [threads EXCEPT ![t].pc = "loop"]
                /\ UNCHANGED inbox
           ELSE LET msg == Head(inbox[v])
                IN  /\ inbox' = [inbox EXCEPT ![v] = Tail(@)]
                    /\ threads' = [threads EXCEPT ![t] =
                          [th EXCEPT !.pc = "dispatch", !.msg = msg,
                                     !.todo = DispatchList(callbacks[v], msg.type),
                                     !.done = <<>>, !.snap = callbacks[v]]]
        /\ UNCHANGED <<conn, stop_evt, reader_th, callbacks, lock, call, wire, nstray,
                       mainVars, otherVars>>

\* the handler of create_handler (lines 265-274) called with msg
handler(vehicle_id, msg) ==
    IF msg.type = TargetType
    THEN Append(received, [receiver |-> vehicle_id, sender |-> msg.src,
                           type |-> msg.type, data |-> msg.data])
    ELSE received

\* the thread after cb(msg) returned
AfterCallbackReturn(th) ==
    [th EXCEPT !.todo = Tail(@), !.done = Append(@, Head(th.todo))]
\* mutant: the exception of a callback reaches the handler of line 127
AfterCallbackRaise_outer(th) ==
    [th EXCEPT !.pc = "loop", !.todo = <<>>,
               !.done = Append(@, Head(th.todo)),
               !.raised_at = IF @ = 0 THEN Len(th.done) + 1 ELSE @]
\* the thread after cb(msg) raised: lines 125-126 catch it, the loop goes on
AfterCallbackRaise(th) ==
    [th EXCEPT !.todo = Tail(@),
               !.done = Append(@, Head(th.todo)),
               !.raised_at = IF @ = 0 THEN Len(th.done) + 1 ELSE @]

\* lines 122-126: the next callback of the list is called
reader_loop_callback(t) ==
    LET th == threads[t]
        cb == Head(th.todo)
    IN  /\ th.pc = "dispatch" /\ th.todo # <<>>
        /\ \E raised \in CanRaise(cb) :
              /\ threads' = [threads EXCEPT ![t] =
                    IF raised THEN AfterCallbackRaise(th) ELSE AfterCallbackReturn(th)]
              /\ received' = IF cb.kind = "handler" /\ ~raised
                             THEN handler(cb.id, th.msg) ELSE received
        /\ UNCHANGED <<conn, stop_evt, reader_th, callbacks, lock, call, netVars,
                       hargs, mpc, sent_at, routed, mexit, otherVars>>

----------------------------------------------------------------------------
(* SimpleVehicle.on_message, send_message, wait_heartbeat_from, close *)

\* lines 132-134
on_message(c, v, msg_type, callback) ==
    /\ CanCall(c)
    /\ callbacks' = [callbacks EXCEPT ![v] =
          [k \in DOMAIN @ \cup {msg_type} |->
              IF k = msg_type THEN Append(Get(@, k), callback) ELSE @[k]]]
    /\ call' = [call EXCEPT ![c] = Return(Frame("on_message", v, "", 0, NoMsg), "None")]
    /\ UNCHANGED <<conn, stop_evt, reader_th, lock, threads, netVars, mainRest, otherVars>>

\* mutant: send_message takes no lock
LockFreeFor_nolock(v, c) == TRUE
\* the RLock of the vehicle can be acquired by c
LockFreeFor(v, c) == lock[v].owner \in {"", c}

\* line 137: `with self._lock` is entered
send_message(c, v, msg) ==
    /\ CanCall(c)
    /\ LockFreeFor(v, c)
    /\ lock' = [lock EXCEPT ![v] = [owner |-> c, depth |-> @.depth + 1]]
    /\ call' = [call EXCEPT ![c] = Frame("send_message", v, "head", 0, msg)]
    /\ UNCHANGED <<conn, stop_evt, reader_th, callbacks, threads, netVars, mainRest,
                   otherVars>>

\* the lock after the `with` block is left
Released(l) == IF l.depth <= 1 THEN FreeLock ELSE [l EXCEPT !.depth = @ - 1]

\* line 138, self._conn.mav.send(msg): the first part of the packed message is
\* written; without an open connection the call raises and the lock is released
send_message_head(c) ==
    LET v == call[c].v
    IN  /\ In(c, "send_message", "head")
        /\ IF conn[v] = "open"
           THEN /\ wire' = [wire EXCEPT ![v] =
                      Append(@, [by |-> c, msg |-> call[c].msg, part |-> "head"])]
                /\ call' = [call EXCEPT ![c].pc = "tail"]
                /\ UNCHANGED lock
           ELSE /\ call' = [call EXCEPT ![c] = Return(@, "raise")]
                /\ lock' = [lock EXCEPT ![v] = Released(@)]
                /\ UNCHANGED wire
        /\ UNCHANGED <<conn, stop_evt, reader_th, callbacks, threads, inbox, nstray,
                       mainVars, otherVars>>

\* line 138 goes on: the rest of the message is written, the `with` block is left
send_message_tail(c) ==
    LET v == call[c].v
    IN  /\ In(c, "send_message", "tail")
        /\ IF conn[v] = "open"
           THEN /\ wire' = [wire EXCEPT ![v] =
                      Append(@, [by |-> c, msg |-> call[c].msg, part |-> "tail"])]
                /\ call' = [call EXCEPT ![c] = Return(@, "None")]
           ELSE /\ call' = [call EXCEPT ![c] = Return(@, "raise")]
                /\ UNCHANGED wire
        /\ lock' = [lock EXCEPT ![v] = Released(@)]
        /\ UNCHANGED <<conn, stop_evt, reader_th, callbacks, threads, inbox, nstray,
                       mainVars, otherVars>>

\* line 141: the deadline is set
wait_heartbeat_from(c, v, target_sysid) ==
    /\ CanCall(c)
    /\ call' = [call EXCEPT ![c] =
          [Frame("wait_heartbeat_from", v, "poll", target_sysid, NoMsg)
              EXCEPT !.seen = Queued(v, target_sysid)]]
    /\ UNCHANGED <<conn, stop_evt, reader_th, callbacks, lock, threads, netVars, mainRest,
                   otherVars>>

\* lines 142-146: before the deadline, recv_match(type='HEARTBEAT') reads one
\* message: a HEARTBEAT of the target ends the wait, any other message is
\* dropped; without an open connection the call raises
wait_heartbeat_from_poll(c) ==
    LET v == call[c].v
    IN  /\ In(c, "wait_heartbeat_from", "poll")
        /\ IF conn[v] # "open"
           THEN /\ call' = [call EXCEPT ![c] = Return(@, "raise")]
                /\ UNCHANGED inbox
           ELSE /\ inbox[v] # <<>>
                /\ inbox' = [inbox EXCEPT ![v] = Tail(@)]
                /\ call' = [call EXCEPT ![c] =
                      IF Head(inbox[v]).type = "HEARTBEAT"
                         /\ Head(inbox[v]).src = call[c].target
                      THEN Return(@, "True") ELSE @]
        /\ UNCHANGED <<conn, stop_evt, reader_th, callbacks, lock, threads, wire, nstray,
                       mainVars, otherVars>>

\* lines 142, 147: the deadline passed
wait_heartbeat_from_timeout(c) ==
    /\ In(c, "wait_heartbeat_from", "poll")
    /\ conn[call[c].v] = "open"
    /\ call' = [call EXCEPT ![c] = Return(@, "False")]
    /\ UNCHANGED <<conn, stop_evt, reader_th, callbacks, lock, threads, netVars, mainVars,
                   otherVars>>

\* line 150: the stop flag is set
close(c, v) ==
    /\ CanCall(c)
    /\ stop_evt' = [stop_evt EXCEPT ![v] = TRUE]
    /\ call' = [call EXCEPT ![c] =
                  Frame("close", v, IF reader_th[v] # 0 THEN "join" ELSE "release", 0, NoMsg)]
    /\ UNCHANGED <<conn, reader_th, callbacks, lock, threads, netVars, mainRest, otherVars>>

\* mutant: the join has no timeout
JoinReturns_ended(th) == th.pc = "exit"
\* whether join(timeout=2.0) on the thread can return: the thread ended, or
\* the two seconds pass while it is inside a callback (outside callbacks the
\* thread is back at the test of line 115 within the 0.5 s of its recv_match)
JoinReturns(th) == th.pc = "exit" \/ (th.pc = "dispatch" /\ th.todo # <<>>)

\* line 152, join(timeout=2.0): returns when the thread ended or the two
\* seconds passed
close_join(c) ==
    /\ In(c, "close", "join")
    /\ JoinReturns(threads[reader_th[call[c].v]])
    /\ call' = [call EXCEPT ![c].pc = "release"]
    /\ UNCHANGED <<conn, stop_evt, reader_th, callbacks, lock, threads, netVars, mainVars,
                   otherVars>>

\* mutant: closing a connection that is already closed raises
close_release_raises(c) ==
    LET v == call[c].v
    IN  /\ In(c, "close", "release")
        /\ conn' = [conn EXCEPT ![v] = IF @ = "none" THEN "none" ELSE "closed"]
        /\ inbox' = [inbox EXCEPT ![v] = <<>>]
        /\ call' = [call EXCEPT ![c] = Return(@, IF conn[v] = "closed" THEN "raise" ELSE "None")]
        /\ UNCHANGED <<stop_evt, reader_th, callbacks, lock, threads, wire, nstray,
                       mainVars, otherVars>>
\* lines 153-155: the connection, if any, is closed
close_release(c) ==
    LET v == call[c].v
    IN  /\ In(c, "close", "release")
        /\ conn' = [conn EXCEPT ![v] = IF @ = "none" THEN "none" ELSE "closed"]
        /\ inbox' = [inbox EXCEPT ![v] = <<>>]
        /\ call' = [call EXCEPT ![c] = Return(@, "None")]
        /\ UNCHANGED <<stop_evt, reader_th, callbacks, lock, threads, wire, nstray,
                       mainVars, otherVars>>

----------------------------------------------------------------------------
(* The network: the peers behind the router send to a vehicle *)

PeerSends(v, msg) ==
    /\ conn[v] = "open"
    /\ Len(inbox[v]) < MaxInbox
    /\ msg.type = TargetType => nstray < MaxStray
    /\ inbox' = [inbox EXCEPT ![v] = Append(@, msg)]
    /\ nstray' = IF msg.type = TargetType THEN nstray + 1 ELSE nstray
    /\ call' = [c \in DOMAIN call |->
          IF In(c, "wait_heartbeat_from", "poll") /\ call[c].v = v
             /\ msg = Heartbeat(call[c].target)
          THEN [call[c] EXCEPT !.seen = TRUE] ELSE call[c]]
    /\ UNCHANGED <<conn, stop_evt, reader_th, callbacks, lock, threads, wire, mainVars,
                   otherVars>>

\* the steps of the methods in progress and of the reader threads
MethodStep(c) ==
    \/ connect_wait_heartbeat(c)
    \/ connect_timeout(c)
    \/ connect_start(c)
    \/ wait_heartbeat_from_poll(c)
    \/ wait_heartbeat_from_timeout(c)
    \/ close_join(c)
    \/ close_release(c)
ReaderStep(t) ==
    \/ reader_loop_test(t)
    \/ reader_loop_recv(t)
    \/ reader_loop_callback(t)

----------------------------------------------------------------------------
(* SpecSession: one SimpleVehicle whose connect, close and               *)
(* wait_heartbeat_from one driver thread calls in any order                *)

MainIdle == hargs = "" /\ mpc = "off" /\ received = <<>> /\ sent_at = -1
            /\ routed = FALSE /\ mexit = -1

InitSession ==
    /\ SessInit({1}, {"t1"})
    /\ MainIdle /\ CmpIdle /\ ParseIdle /\ CheckIdle

\* the driver thread calls a method of the vehicle
SessionCall(c, v) ==
    /\ \/ \E w \in BOOLEAN : Len(threads) < MaxThreads /\ connect(c, v, w)
       \/ close(c, v)
       \/ \E target \in PeerSysIds : wait_heartbeat_from(c, v, target)
    /\ UNCHANGED mpc

NextSession ==
    \/ SessionCall("t1", 1)
    \/ MethodStep("t1")
    \/ \E t \in DOMAIN threads : reader_loop_test(t) \/ reader_loop_recv(t)
    \/ \E msg \in PeerMsgs : PeerSends(1, msg)
SpecSession == InitSession /\ [][NextSession]_vars

----------------------------------------------------------------------------
(* SpecDispatch: one SimpleVehicle, connected once, on which callbacks are  *)
(* registered while its reader thread receives and dispatches              *)

\* the keys the drawn registrations use
RegKeys == {TargetType, "*"}
\* how many callbacks are registered on a vehicle
NumRegistered(v) == Len(Get(callbacks[v], TargetType)) + Len(Get(callbacks[v], "*"))

DispatchCall(c, v) ==
    /\ \/ \E w \in BOOLEAN : conn[v] = "none" /\ connect(c, v, w)
       \/ \E key \in RegKeys :
             /\ NumRegistered(v) < MaxRegs
             /\ on_message(c, v, key, Probe(NumRegistered(v) + 1))
       \/ \E target \in PeerSysIds : wait_heartbeat_from(c, v, target)
       \/ close(c, v)
    /\ UNCHANGED mpc

NextDispatch ==
    \/ DispatchCall("t1", 1)
    \/ MethodStep("t1")
    \/ \E t \in DOMAIN threads : ReaderStep(t)
    \/ \E msg \in PeerMsgs : PeerSends(1, msg)
SpecDispatch == InitSession /\ [][NextDispatch]_vars

\* SpecDispatch with reader threads that are scheduled: a thread that can
\* take a step takes one (its recv_match returns within 0.5 s, a callback
\* returns or raises)
SpecDispatchFair ==
    SpecDispatch /\ \A t \in 1..MaxThreads : WF_vars(t \in DOMAIN threads /\ ReaderStep(t))

\* how many messages were handed to the connection of a vehicle
NumSent(v) == Len(SelectSeq(wire[v], LAMBDA ch : ch.part = "head"))

----------------------------------------------------------------------------
(* SpecSend: several threads send on one SimpleVehicle while it is          *)
(* connected, its reader thread running                                    *)

Senders == {"t1", "t2"}

InitSend ==
    /\ SessInit({1}, Senders)
    /\ MainIdle /\ CmpIdle /\ ParseIdle /\ CheckIdle

SendCall(c, v) ==
    /\ \/ Len(threads) < 1 /\ connect(c, v, FALSE)
       \/ NumSent(v) < MaxSends /\ send_message(c, v, BuiltMsg(v))
       \/ conn[v] = "open" /\ close(c, v)
    /\ UNCHANGED mpc

NextSend ==
    \/ \E c \in Senders : SendCall(c, 1)
    \/ \E c \in Senders : connect_start(c) \/ close_join(c) \/ close_release(c)
    \/ \E c \in Senders : send_message_head(c) \/ send_message_tail(c)
    \/ \E t \in DOMAIN threads : reader_loop_test(t) \/ reader_loop_recv(t)
    \/ \E msg \in PeerMsgs : PeerSends(1, msg)
SpecSend == InitSend /\ [][NextSend]_vars

----------------------------------------------------------------------------
(* SpecHarness: main of test_navlink_msg.py.  The command line asks for the *)
(* list ("list"), names no message ("nomessage"), names a message that      *)
(* create_message rejects ("badmessage") or one it builds ("run").          *)
(* The reader threads are daemon threads (line 110): when main is over the   *)
(* process exits and they end with it.                                      *)

CommandLines == {"list", "nomessage", "badmessage", "run"}

InitHarness ==
    /\ SessInit(Vehicles, {"main"})
    /\ hargs \in CommandLines
    /\ mpc = "start" /\ received = <<>> /\ sent_at = -1 /\ routed = FALSE /\ mexit = -1
    /\ CmpIdle /\ ParseIdle /\ CheckIdle

\* the method main called has returned value
Returned_(value) == call["main"].pc = "ret" /\ call["main"].ret = value

\* lines 236-252: main returns before the test starts
MainNoTest ==
    /\ mpc = "start" /\ hargs # "run"
    /\ mexit' = IF hargs = "list" THEN 0 ELSE 1
    /\ mpc' = "done"
    /\ UNCHANGED <<hargs, received, sent_at, routed, sessVars, netVars, otherVars>>

\* line 282: vehicle1.connect(wait_heartbeat=True, timeout=10)
MainConnect1 ==
    /\ mpc = "start" /\ hargs = "run"
    /\ connect("main", 1, TRUE)
    /\ mpc' = "connect1"

\* line 285: vehicle2.connect(wait_heartbeat=True, timeout=10)
MainConnect2 ==
    /\ mpc = "connect1" /\ Returned_("True")
    /\ connect("main", 2, TRUE)
    /\ mpc' = "connect2"

\* mutant: a failed connect is reported but main returns 0
MainConnectFailed_zero ==
    /\ mpc \in {"connect1", "connect2"} /\ Returned_("False")
    /\ mexit' = 0
    /\ mpc' = "finally"
    /\ UNCHANGED <<hargs, received, sent_at, routed, sessVars, netVars, otherVars>>
\* lines 283-284, 286-287: a connect returned False, main returns 1
MainConnectFailed ==
    /\ mpc \in {"connect1", "connect2"} /\ Returned_("False")
    /\ mexit' = 1
    /\ mpc' = "finally"
    /\ UNCHANGED <<hargs, received, sent_at, routed, sessVars, netVars, otherVars>>

\* line 290: vehicle1.on_message("*", create_handler(1))
MainRegister1 ==
    /\ mpc = "connect2" /\ Returned_("True")
    /\ on_message("main", 1, "*", Handler(1))
    /\ mpc' = "register1"

\* line 291: vehicle2.on_message("*", create_handler(2))
MainRegister2 ==
    /\ mpc = "register1"
    /\ on_message("main", 2, "*", Handler(2))
    /\ mpc' = "register2"

\* line 294: vehicle2.wait_heartbeat_from(1, 10.0)
MainWait2 ==
    /\ mpc = "register2"
    /\ wait_heartbeat_from("main", 2, 1)
    /\ mpc' = "wait2"

\* mutant: vehicle 1 waits for the system vehicle 2 waited for
MainWait1_same ==
    /\ mpc = "wait2" /\ (Returned_("True") \/ Returned_("False"))
    /\ wait_heartbeat_from("main", 1, 1)
    /\ mpc' = "wait1"
\* line 295: vehicle1.wait_heartbeat_from(2, 10.0), whatever line 294 returned
MainWait1 ==
    /\ mpc = "wait2" /\ (Returned_("True") \/ Returned_("False"))
    /\ wait_heartbeat_from("main", 1, 2)
    /\ mpc' = "wait1"

\* mutant: the message is sent only if vehicle 1 saw its heartbeat
MainSend_gated ==
    /\ mpc = "wait1" /\ Returned_("True")
    /\ send_message("main", 2, BuiltMsg(2))
    /\ mpc' = "send"
\* line 301: vehicle2.send_message(msg), whatever line 295 returned
MainSend ==
    /\ mpc = "wait1" /\ (Returned_("True") \/ Returned_("False"))
    /\ send_message("main", 2, BuiltMsg(2))
    /\ mpc' = "send"

\* lines 303-304: send_message returned, main sleeps
MainSleep ==
    /\ mpc = "send" /\ Returned_("None")
    /\ sent_at' = Len(received)
    /\ mpc' = "sleep"
    /\ UNCHANGED <<hargs, received, routed, mexit, sessVars, netVars, otherVars>>

\* mutant: the test passes only on a record of vehicle 1 from vehicle 2
Verdict_strict(log) ==
    IF \E i \in DOMAIN log : log[i].receiver = 1 /\ log[i].sender = SysId(2)
    THEN 0 ELSE 1
\* lines 311-320: `if received:` return 0, else return 1
Verdict(log) == IF log # <<>> THEN 0 ELSE 1

\* lines 306-320: the sleep is over, the log is inspected
MainInspect ==
    /\ mpc = "sleep"
    /\ mexit' = Verdict(received)
    /\ mpc' = "finally"
    /\ UNCHANGED <<hargs, received, sent_at, routed, sessVars, netVars, otherVars>>

\* lines 322-324: KeyboardInterrupt reaches main inside the try block; the
\* method in progress is left (a `with` block releases its lock), main returns 1
MainInterrupt ==
    /\ mpc \in {"connect1", "connect2", "register1", "register2", "wait2", "wait1",
                "send", "sleep"}
    /\ call' = [call EXCEPT !["main"] = IdleFrame]
    /\ lock' = [v \in DOMAIN lock |-> IF lock[v].owner = "main" THEN FreeLock ELSE lock[v]]
    /\ mexit' = 1
    /\ mpc' = "finally"
    /\ UNCHANGED <<conn, stop_evt, reader_th, callbacks, threads, netVars,
                   hargs, received, sent_at, routed, otherVars>>

\* lines 325-327: KeyboardInterrupt reaches main inside the finally block,
\* where nothing catches it: the close in progress and what follows it are
\* left, the exception leaves main and the interpreter exits on it (never 0)
MainInterruptFinally ==
    /\ mpc \in {"finally", "close1", "close2"}
    /\ call' = [call EXCEPT !["main"] = IdleFrame]
    /\ mexit' = 130
    /\ mpc' = "done"
    /\ UNCHANGED <<conn, stop_evt, reader_th, callbacks, lock, threads, netVars,
                   hargs, received, sent_at, routed, otherVars>>

\* line 326: vehicle1.close()
MainClose1 ==
    /\ mpc = "finally"
    /\ close("main", 1)
    /\ mpc' = "close1"

\* line 327: vehicle2.close()
MainClose2 ==
    /\ mpc = "close1" /\ Returned_("None")
    /\ close("main", 2)
    /\ mpc' = "close2"

\* the finally block is over: main's value is returned to sys.exit
MainExit ==
    /\ mpc = "close2" /\ Returned_("None")
    /\ mpc' = "done"
    /\ UNCHANGED <<hargs, received, sent_at, routed, mexit, sessVars, netVars, otherVars>>

\* the router forwards the message vehicle 2 wrote to vehicle 1
RouterForwards ==
    /\ ~routed
    /\ \E i \in DOMAIN wire[2] : wire[2][i].part = "tail"
    /\ conn[1] = "open" /\ Len(inbox[1]) < MaxInbox
    /\ inbox' = [inbox EXCEPT ![1] = Append(@, BuiltMsg(2))]
    /\ routed' = TRUE
    /\ UNCHANGED <<sessVars, wire, nstray, hargs, mpc, received, sent_at, mexit, otherVars>>

NextHarness ==
    \/ MainNoTest
    \/ MainConnect1 \/ MainConnect2 \/ MainRegister1 \/ MainRegister2
    \/ MainWait2 \/ MainWait1 \/ MainSend \/ MainClose1 \/ MainClose2
    \/ MainConnectFailed \/ MainSleep \/ MainInspect \/ MainInterrupt \/ MainExit
    \/ MainInterruptFinally
    \/ (mpc # "done" /\ MethodStep("main"))
    \/ send_message_head("main") \/ send_message_tail("main")
    \/ (mpc # "done" /\ \E t \in DOMAIN threads : ReaderStep(t))
    \/ (mpc # "done" /\ \E v \in Vehicles, msg \in PeerMsgs : PeerSends(v, msg))
    \/ (mpc # "done" /\ RouterForwards)
SpecHarness == InitHarness /\ [][NextHarness]_vars

----------------------------------------------------------------------------
(* Claims about compare_crcs (under SpecCompare) *)

Range(q) == {q[i] : i \in DOMAIN q}
ErrIds(errs) == {e.msg_id : e \in Range(errs)}
BothCalled == cmpAB.called /\ cmpBA.called
BothPresent == cmpIn.A.present /\ cmpIn.B.present

\* the same discrepancy seen from the other side: the same id, the same source
\* named missing, or the same two (source, crc) values in either order
SameDiscrepancy(e, f) ==
    /\ e.msg_id = f.msg_id
    /\ e.name = f.name
    /\ e.issue.text = f.issue.text
    /\ IF e.issue.text = "Missing in"
       THEN e.issue.s1 = f.issue.s1
       ELSE {<<e.issue.s1, e.issue.c1>>, <<e.issue.s2, e.issue.c2>>}
            = {<<f.issue.s1, f.issue.c1>>, <<f.issue.s2, f.issue.c2>>}

\* C2: compare(A,B) and compare(B,A) report the same ids as discrepant; an id
\* reported missing in a source by one call is reported missing in that same
\* source by the other, and a mismatch is reported by both with the same two values.
C2_Symmetric ==
    (BothCalled /\ BothPresent) =>
        /\ ErrIds(cmpAB.errors) = ErrIds(cmpBA.errors)
        /\ \A e \in Range(cmpAB.errors) :
              \E f \in Range(cmpBA.errors) : SameDiscrepancy(e, f)
        /\ \A f \in Range(cmpBA.errors) :
              \E e \in Range(cmpAB.errors) : SameDiscrepancy(f, e)

\* both calls returned one missing id and one mismatching id
C2_Witness ==
    /\ BothCalled /\ BothPresent
    /\ \E e \in Range(cmpAB.errors) : e.issue.text = "Missing in"
    /\ \E e \in Range(cmpAB.errors) : e.issue.text = "CRC mismatch"
    /\ Len(cmpBA.errors) = 2

\* what the rule of the comparator asks for one id of the union
ExpectedFor(id) ==
    LET A == cmpIn.A.tbl
        B == cmpIn.B.tbl
    IN  IF id \notin DOMAIN B
        THEN {Error(id, A[id].name, MissingIssue(cmpIn.nameB))}
        ELSE IF id \notin DOMAIN A
        THEN {Error(id, B[id].name, MissingIssue(cmpIn.nameA))}
        ELSE IF A[id].crc # B[id].crc
        THEN {Error(id, A[id].name,
                    MismatchIssue(cmpIn.nameA, A[id].crc, cmpIn.nameB, B[id].crc))}
        ELSE {}

\* C3: the result is in strictly ascending id order and holds exactly one
\* discrepancy for each id that is only in A, only in B, or in both with
\* different integrity codes, and none for any other id.
C3_ExactSorted ==
    (cmpAB.called /\ BothPresent) =>
        LET errs == cmpAB.errors
            union == Keys(cmpIn.A) \cup Keys(cmpIn.B)
        IN  /\ \A i \in 1..(Len(errs) - 1) : errs[i].msg_id < errs[i + 1].msg_id
            /\ ErrIds(errs) \subseteq union
            /\ \A id \in union :
                  {e \in Range(errs) : e.msg_id = id} = ExpectedFor(id)

\* a result with two discrepancies of different kinds
C3_Witness ==
    /\ cmpAB.called /\ BothPresent
    /\ Len(cmpAB.errors) = 2
    /\ cmpAB.errors[1].issue.text # cmpAB.errors[2].issue.text

SameCodes ==
    /\ Keys(cmpIn.A) = Keys(cmpIn.B)
    /\ \A id \in Keys(cmpIn.A) : cmpIn.A.tbl[id].crc = cmpIn.B.tbl[id].crc

\* C4: tables with the same ids and the same integrity code for every id
\* compare empty, whatever the lengths are.
C4_LengthIgnored ==
    (cmpAB.called /\ BothPresent /\ SameCodes) => cmpAB.errors = <<>>

\* two tables that agree on the codes and differ in a length were compared
C4_Witness ==
    /\ cmpAB.called /\ BothPresent /\ SameCodes
    /\ \E id \in Keys(cmpIn.A) : cmpIn.A.tbl[id].len # cmpIn.B.tbl[id].len

----------------------------------------------------------------------------
(* Claims about parse_c_header_crcs (under SpecParse) *)

\* the table definition block of a content: the entries after the first "open"
\* and before the first "close" that follows it
FirstOpen(content) ==
    CHOOSE i \in DOMAIN content :
        content[i].kind = "open" /\ \A j \in 1..(i - 1) : content[j].kind # "open"
BlockEntries(content) ==
    LET o == FirstOpen(content)
    IN  {content[i].f : i \in {k \in DOMAIN content :
            /\ k > o
            /\ content[k].kind = "entry"
            /\ \A j \in (o + 1)..(k - 1) : content[j].kind # "close"}}

\* C5: on an existing file that holds the block, the result is exactly the
\* catalog entries of the block: one descriptor {catalog name, crc, max_len}
\* per catalog id of the block, taken from a tuple of the block, and no other.
C5_ExactlyBlock ==
    (parsed.called /\ hdr.exists /\ SearchDefine(hdr.content)) =>
        LET blk == {f \in BlockEntries(hdr.content) : f.msg_id \in CatalogIds}
        IN  /\ parsed.val.present
            /\ Keys(parsed.val) = {f.msg_id : f \in blk}
            /\ \A id \in Keys(parsed.val) :
                  \E f \in blk :
                     /\ f.msg_id = id
                     /\ parsed.val.tbl[id] =
                          [name |-> NameOfId(id), crc |-> f.crc, len |-> f.max_len]

----------------------------------------------------------------------------
(* Claims about the checker's main (under SpecCheck) *)

\* the discrepancies of compare_crcs over the three pairs of non-absent sources
RECURSIVE PairwiseDiscrepancies(_)
PairwiseDiscrepancies(i) ==
    IF i > Len(pairs) THEN <<>>
    ELSE LET a == pairs[i][1]
             b == pairs[i][2]
         IN  (IF sources[a].present /\ sources[b].present
              THEN compare_crcs(a, sources[a], b, sources[b]).errors
              ELSE <<>>)
             \o PairwiseDiscrepancies(i + 1)

\* C1: the exit code is 0 exactly when the discrepancies of compare_crcs over
\* the pairs of non-absent sources (empty tables included) are none.
C1_ExitIffNoDiscrepancy ==
    cpc = "done" => (cexit = 0 <=> PairwiseDiscrepancies(1) = <<>>)

----------------------------------------------------------------------------
(* Claims about SimpleVehicle *)

\* the threads inside SimpleVehicle.send_message's call of mav.send
InSend(v) ==
    {c \in DOMAIN call : call[c].op = "send_message" /\ call[c].v = v
                         /\ call[c].pc \in {"head", "tail"}}

\* C7: at most one caller is inside the connection's send at any time, and
\* what was written is a sequence of whole messages: each first part is
\* followed by the rest of the same message of the same sender.
C7_SendsExclusive ==
    \A v \in DOMAIN conn :
        /\ Cardinality(InSend(v)) <= 1
        /\ \A i \in DOMAIN wire[v] :
              /\ wire[v][i].part = "head" <=> i % 2 = 1
              /\ (wire[v][i].part = "tail") =>
                    /\ wire[v][i - 1].by = wire[v][i].by
                    /\ wire[v][i - 1].msg = wire[v][i].msg

\* a thread is in the middle of its message, after a whole message of the
\* other thread, while the reader thread is receiving
C7_Witness ==
    \E c \in DOMAIN call :
        /\ call[c].op = "send_message" /\ call[c].pc = "tail"
        /\ Len(wire[1]) = 3
        /\ wire[1][1].by # c /\ wire[1][2].by # c /\ wire[1][3].by = c
        /\ \E t \in DOMAIN threads : threads[t].pc = "recv"

\* the reader threads of a vehicle that were started and have not ended
Running(v) == {t \in DOMAIN threads : threads[t].veh = v /\ threads[t].pc # "exit"}
\* the session is connected and close() was not called
Connected(v) == conn[v] = "open" /\ reader_th[v] # 0 /\ ~stop_evt[v]

\* C8: whatever connect() and close() calls were made, at most one reader
\* thread of the session is running, and exactly one while it is connected.
C8_OneReader ==
    \A v \in DOMAIN conn :
        /\ Cardinality(Running(v)) <= 1
        /\ Connected(v) => Cardinality(Running(v)) = 1

\* the callbacks registered for the type of the message and for "*" when the
\* thread started to dispatch its message
ExactOf(th) == Get(th.snap, th.msg.type)
WildOf(th) == Get(th.snap, "*")
\* the for loop of line 122 has ended
Dispatched(th) == th.pc = "dispatch" /\ th.todo = <<>>

\* C9: when the dispatch of a message has ended, the callbacks called are
\* those registered for its type, in registration order, followed by those
\* registered for "*", in registration order, each once and no other.
C9_ExactThenWildcard ==
    \A t \in DOMAIN threads :
        LET th == threads[t]
            ne == Len(ExactOf(th))
            nw == Len(WildOf(th))
        IN  Dispatched(th) =>
              /\ Len(th.done) = ne + nw
              /\ \A i \in 1..ne : th.done[i] = ExactOf(th)[i]
              /\ \A j \in 1..nw : th.done[ne + j] = WildOf(th)[j]
              /\ \A i, j \in 1..ne : i < j => th.done[i].id < th.done[j].id
              /\ \A i, j \in (ne + 1)..(ne + nw) : i < j => th.done[i].id < th.done[j].id

\* a message of the target type was dispatched to the callback of its type
\* and then to the wildcard callback, which was registered first
C9_Witness ==
    \E t \in DOMAIN threads :
        /\ Dispatched(threads[t])
        /\ threads[t].msg.type = TargetType
        /\ threads[t].done = <<Probe(2), Probe(1)>>

\* C10: once a callback raised for a message, the thread is still in the for
\* loop of that message and every callback of the list was called or is still
\* to be called; a thread in which a callback raised ends only when the stop
\* flag is set.
C10_FaultContained ==
    \A t \in DOMAIN threads :
        LET th == threads[t]
        IN  /\ th.raised_at # 0 =>
                 /\ th.pc = "dispatch"
                 /\ th.done \o th.todo = ExactOf(th) \o WildOf(th)
            /\ (th.pc = "exit" /\ (th.raised_at # 0 \/ th.faulted_before)) =>
                 stop_evt[th.veh]

\* the first callback of a message raised and the second was called, in a
\* thread where a callback had raised for an earlier message
C10_Witness ==
    \E t \in DOMAIN threads :
        /\ Dispatched(threads[t])
        /\ threads[t].raised_at = 1
        /\ Len(threads[t].done) = 2
        /\ threads[t].faulted_before

\* parse_c_header_crcs returns None for a file that does not exist or that
\* holds no definition of the table, and a table for every other file
ParseAbsent ==
    \A f \in DrawnFiles :
        parse_c_header_crcs(f) = None <=> (~f.exists \/ ~SearchDefine(f.content))
\* get_pymavlink_crcs returns None for a module that cannot be imported, and
\* else the table of exactly the catalog messages the module has a class for
PymavlinkAbsent ==
    \A m \in DrawnModules :
        LET r == get_pymavlink_crcs(m)
        IN  IF ~m.importable THEN r = None
            ELSE /\ r.present
                 /\ Keys(r) = {NAVLINK_MESSAGES[n] : n \in DOMAIN m.classes}
\* the pair main examines in this step holds an absent source
PairWithAbsent ==
    /\ cpc = "pairs"
    /\ \E k \in 1..2 : sources[pairs[pair_i][k]] = None
\* the pairs of which neither source is absent
PresentPairs == {k \in DOMAIN pairs : \A j \in 1..2 : sources[pairs[k][j]] # None}

\* C16: the extractors return None for an unreachable source (missing file,
\* no table definition, module that cannot be imported) and leave a missing
\* class out of the table; main adds no error for a pair that holds an absent
\* source, and a run that fails owes it to a pair of two sources that are there.
C16_AbsentIsSkipped ==
    /\ [](ParseAbsent /\ PymavlinkAbsent)
    /\ [][PairWithAbsent => all_errors' = all_errors]_vars
    /\ []((cpc = "done" /\ cexit = 1) =>
            \E k \in PresentPairs :
                compare_crcs(pairs[k][1], sources[pairs[k][1]],
                             pairs[k][2], sources[pairs[k][2]]).errors # <<>>)
\* a run is over with exit code 0 whose ardupilot header was absent while
\* pymavlink and the router header, which agree, were compared
C16_Witness ==
    /\ cpc = "done" /\ cexit = 0
    /\ sources["ardupilot"] = None
    /\ Truthy(sources["pymavlink"]) /\ Truthy(sources["router"])

----------------------------------------------------------------------------
(* Claims about SimpleVehicle's life cycle (under SpecSession) *)

\* the driver thread of SpecSession and its vehicle
Driver == "t1"

\* a step in which connect, waiting for the heartbeat, moves on
ConnectWaitMoves == In(Driver, "connect", "wait_heartbeat") /\ call'[Driver] # call[Driver]
\* a step in which connect returns value
ConnectReturns(value) ==
    /\ call[Driver].op = "connect" /\ call[Driver].pc # "ret"
    /\ call'[Driver] = Return(call[Driver], value)
\* a step that starts a reader thread
ThreadStarted == Len(threads') # Len(threads)

\* C11: a connect that waits for the heartbeat either times out (it returns
\* False, no reader thread is started, the method is over) or reads a HEARTBEAT
\* and goes on to start the thread; a reader thread is started only by the
\* step of connect that returns True, and that step starts exactly one.
C11_ConnectOutcome ==
    [][ /\ ConnectWaitMoves =>
             \/ ConnectReturns("False") /\ ~ThreadStarted /\ reader_th' = reader_th
             \/ /\ call'[Driver] = [call[Driver] EXCEPT !.pc = "start"]
                /\ inbox[call[Driver].v] # <<>>
                /\ Head(inbox[call[Driver].v]).type = "HEARTBEAT"
                /\ ~ThreadStarted
        /\ ThreadStarted <=> ConnectReturns("True")
        /\ ThreadStarted =>
             /\ threads' = Append(threads, NewThread(call[Driver].v))
             /\ reader_th' = [reader_th EXCEPT ![call[Driver].v] = Len(threads')]
      ]_vars
\* a connect succeeded and started its thread, a later connect timed out and
\* started none
C11_Witness ==
    /\ call[Driver].op = "connect" /\ call[Driver].pc = "ret" /\ call[Driver].ret = "False"
    /\ Len(threads) = 1

\* a step in which the wait_heartbeat_from of the driver is left, on a
\* connected vehicle whose one reader thread is running
WaitLeaves ==
    /\ In(Driver, "wait_heartbeat_from", "poll")
    /\ call'[Driver].pc = "ret"
    /\ Connected(call[Driver].v) /\ Cardinality(Running(call[Driver].v)) = 1

\* C12: on a connected session whose reader thread runs, wait_heartbeat_from
\* returns True or False and never raises; it returns True only if a HEARTBEAT
\* of the target arrived, and whenever one has arrived on the connection (and
\* is not still waiting to be read when the deadline passes) it returns True.
C12_TrueIffArrived ==
    [][ WaitLeaves =>
          /\ call'[Driver].ret \in {"True", "False"}
          /\ call'[Driver].ret = "True" => call[Driver].seen
          /\ (call[Driver].seen /\ ~Queued(call[Driver].v, call[Driver].target))
                => call'[Driver].ret = "True"
      ]_vars

\* close() of the driver has returned
CloseReturned == call[Driver].op = "close" /\ call[Driver].pc = "ret"
\* a step of a close() called on a session that an earlier close() left
SecondCloseStep ==
    /\ call'[Driver] # call[Driver] /\ call'[Driver].op = "close"
    /\ stop_evt[call'[Driver].v] /\ conn[call'[Driver].v] # "open"
\* a second close() changes nothing of the session but the caller's frame
SecondCloseChangesNothing ==
    [][SecondCloseStep =>
          UNCHANGED <<conn, stop_evt, reader_th, callbacks, lock, threads, netVars>>]_vars

\* C13: close() completes without error on a never-opened session, after a
\* connect that timed out, on a connected session and on a closed one; it
\* leaves the connection released and no reader thread running, and a
\* second close() leaves the session as the first left it.
C13_CloseIdempotent ==
    /\ [](CloseReturned =>
            /\ call[Driver].ret = "None"
            /\ conn[call[Driver].v] # "open"
            /\ Running(call[Driver].v) = {})
    /\ SecondCloseChangesNothing

\* C13 as amended: the same, but for the reader thread: the stop flag is set,
\* and a reader thread still running after close() is one that was inside a
\* callback when the join gave up, or is on its way from there to the test of
\* the stop flag.
C13_CloseIdempotentBestEffort ==
    /\ [](CloseReturned =>
            /\ call[Driver].ret = "None"
            /\ conn[call[Driver].v] # "open"
            /\ stop_evt[call[Driver].v]
            /\ \A t \in Running(call[Driver].v) : threads[t].pc = "dispatch")
    /\ SecondCloseChangesNothing
\* a second close() is at its last step, on the connection the first one
\* closed, the reader thread ended
C13_Witness ==
    /\ In(Driver, "close", "release")
    /\ conn[call[Driver].v] = "closed"
    /\ reader_th[call[Driver].v] # 0 /\ Running(call[Driver].v) = {}

\* the vehicle and the reader thread of the close() in progress
Closing(pc) == In(Driver, "close", pc)
ClosingThread == threads[reader_th[call[Driver].v]]
InCallback(th) == th.pc = "dispatch" /\ th.todo # <<>>
\* the step that calls close() on a connected session
CloseCalledStep ==
    /\ CanCall(Driver)
    /\ call'[Driver].op = "close" /\ call'[Driver].pc \in {"join", "release"}
    /\ Connected(call'[Driver].v)

\* C19: close() on a connected session sets the stop flag in its first step
\* and goes to the join, the connection untouched; the join is left only
\* when the reader thread has ended or is held inside a callback (the wait
\* expired), and it can be left in that case; the connection is released by
\* the step after the join and by no other, and that step is always
\* possible, so close() completes.
C19_CloseOrder ==
    /\ [][ /\ CloseCalledStep =>
                /\ stop_evt'[call'[Driver].v] /\ call'[Driver].pc = "join"
                /\ conn' = conn /\ threads' = threads
           /\ (Closing("join") /\ call'[Driver] # call[Driver]) =>
                /\ call'[Driver] = [call[Driver] EXCEPT !.pc = "release"]
                /\ ClosingThread.pc = "exit" \/ InCallback(ClosingThread)
                /\ conn' = conn
           /\ (\E v \in DOMAIN conn : conn[v] = "open" /\ conn'[v] # "open") =>
                /\ Closing("release") /\ stop_evt[call[Driver].v]
                /\ call'[Driver] = Return(call[Driver], "None")
         ]_vars
    /\ [](Closing("join") =>
            /\ stop_evt[call[Driver].v]
            /\ (ClosingThread.pc = "exit" \/ InCallback(ClosingThread))
                  => ENABLED close_join(Driver))
    /\ [](Closing("release") => ENABLED close_release(Driver))
\* close() has returned and released the connection while the reader thread,
\* held inside a callback, has not stopped
C19_Witness ==
    /\ CloseReturned /\ conn[call[Driver].v] = "closed"
    /\ \E t \in Running(call[Driver].v) : InCallback(threads[t])

\* the reader thread t was started and has ended
Ended(t) == t \in DOMAIN threads /\ threads[t].pc = "exit"
\* the reader thread t was started and the stop flag of its vehicle is set
Stopped(t) == t \in DOMAIN threads /\ stop_evt[threads[t].veh]

\* C20: a reader thread ends only in a test of the stop flag that finds it
\* set (a recv_match that times out or raises and a callback that raises
\* lead back to the test), and once the flag is set a scheduled thread
\* eventually ends.
C20_RunsUntilClose ==
    /\ [](\A t \in 1..MaxThreads : Ended(t) => Stopped(t))
    /\ [][\A t \in DOMAIN threads :
            (threads'[t].pc = "exit" /\ threads[t].pc # "exit") =>
                /\ stop_evt[threads[t].veh]
                /\ threads[t].pc = "loop" \/ (threads[t].pc = "dispatch" /\ threads[t].todo = <<>>)
         ]_vars
    /\ \A t \in 1..MaxThreads : Stopped(t) ~> Ended(t)
\* a reader thread has ended after close(), having gone on after a callback
\* that raised
C20_Witness ==
    \E t \in DOMAIN threads : threads[t].pc = "exit" /\ threads[t].faulted_before

----------------------------------------------------------------------------
(* Claims about the harness's main (under SpecHarness) *)

\* main has left a run that created the two vehicles
RunOver == mpc = "done" /\ hargs = "run"
\* close() was called on the vehicle (only close sets the stop flag)
CloseCalled(v) == stop_evt[v]

\* C14: on every way out of a run (a connect that failed, PASS, FAIL, an
\* interrupt at any point), close() was called on vehicle 1 and on vehicle 2
\* before main's result is returned, and no connection is left open.
C14_BothClosed ==
    RunOver => \A v \in Vehicles : CloseCalled(v) /\ conn[v] # "open"

\* the log holds a record of the target type, received by vehicle 1 from
\* vehicle 2's identity, appended after send_message returned
SentMessageObserved ==
    /\ sent_at >= 0
    /\ \E i \in DOMAIN received :
          /\ i > sent_at
          /\ received[i].receiver = 1
          /\ received[i].sender = SysId(2)
          /\ received[i].type = TargetType

\* C6: a test run exits with code 0 only if the message sent from vehicle 2
\* was observed at vehicle 1; in every other case it does not exit with 0.
C6_PassOnlyIfObserved ==
    (mpc = "done" /\ hargs = "run") => (mexit = 0 => SentMessageObserved)

\* no vehicle has written anything to its connection
NothingSent == \A v \in DOMAIN wire : wire[v] = <<>>
\* main is in its finally block, or has left it
Leaving == mpc \in {"finally", "close1", "close2", "done"}
\* the step of main that follows a connect that returned False
ConnectFailedStep ==
    /\ mpc \in {"connect1", "connect2"} /\ Returned_("False")
    /\ mpc' # mpc

\* C15: when create_message fails main returns 1 before a vehicle is opened;
\* when a connect fails main returns 1 with nothing sent; from then on nothing
\* is sent and the result stays 1 (nothing but an interrupt of the clean-up
\* changes it), so no exception leaves main.
C15_FailureExitsOne ==
    /\ []((mpc = "done" /\ hargs = "badmessage") =>
            /\ mexit = 1 /\ NothingSent
            /\ \A v \in Vehicles : conn[v] = "none")
    /\ [][ /\ ConnectFailedStep => (mpc' = "finally" /\ mexit' = 1 /\ NothingSent)
           /\ Leaving =>
                /\ wire' = wire
                /\ mexit' # mexit => (MainInterruptFinally /\ mpc' = "done")
         ]_vars
\* the connect of vehicle 2 returned False after vehicle 1 had connected, and
\* main has returned 1 into its finally block
C15_Witness ==
    /\ mpc = "finally" /\ mexit = 1
    /\ call["main"].op = "connect" /\ call["main"].v = 2 /\ call["main"].ret = "False"
    /\ reader_th[1] # 0

\* main is inside the heartbeat wait of line 294 (on vehicle 2) or of line
\* 295 (on vehicle 1)
InWait2 == mpc = "wait2" /\ In("main", "wait_heartbeat_from", "poll")
InWait1 == mpc = "wait1" /\ In("main", "wait_heartbeat_from", "poll")

\* C17: vehicle 2 waits for a HEARTBEAT whose source is the identity vehicle 1
\* was created with, and vehicle 1 for one whose source is the identity of
\* vehicle 2.
C17_WaitsForIdentities ==
    /\ InWait2 => (call["main"].v = 2 /\ call["main"].target = SysId(1))
    /\ InWait1 => (call["main"].v = 1 /\ call["main"].target = SysId(2))

\* C17 as amended: vehicle 2 waits for a HEARTBEAT of system 1 and vehicle 1
\* for one of system 2, the systems behind the router, which are not the
\* identities (251, 252) of the vehicles.
C17_WaitsForPeers ==
    /\ InWait2 => (call["main"].v = 2 /\ call["main"].target = 1)
    /\ InWait1 => (call["main"].v = 1 /\ call["main"].target = 2)
    /\ \A v \in Vehicles : SysId(v) \notin {1, 2}
\* the wait of vehicle 2 has returned and vehicle 1 is waiting
C17_Witness == InWait1 /\ call["main"].target = 2

\* the heartbeat wait main called has returned, True or False
WaitReturned == Returned_("True") \/ Returned_("False")
\* what one send_message(msg) of main on vehicle 2 writes
OneSend ==
    <<[by |-> "main", msg |-> BuiltMsg(2), part |-> "head"],
      [by |-> "main", msg |-> BuiltMsg(2), part |-> "tail"]>>
\* the message was sent once, by vehicle 2, and nothing else was sent
SentOnce == wire[2] = OneSend /\ wire[1] = <<>>

\* C18: once both connects succeeded, each heartbeat wait, whatever it
\* returned, is followed by the next statement (nothing but an interrupt takes
\* main elsewhere): the second wait, then the send; the message is written
\* once, on vehicle 2, by that send only, and a run that reaches its sleep or
\* its verdict has sent it exactly once.
C18_SendsOnce ==
    /\ []((mpc = "wait2" /\ WaitReturned) => ENABLED MainWait1)
    /\ []((mpc = "wait1" /\ WaitReturned) => ENABLED MainSend)
    /\ [][ /\ (mpc \in {"register2", "wait2", "wait1"} /\ mpc' # mpc) =>
                (MainWait2 \/ MainWait1 \/ MainSend \/ MainInterrupt)
           /\ wire' # wire =>
                /\ mpc = "send" /\ mpc' = "send"
                /\ wire'[1] = wire[1]
                /\ \E i \in 1..2 : wire'[2] = Append(wire[2], OneSend[i])
         ]_vars
    /\ [](wire[1] = <<>> /\ NumSent(2) <= 1)
    /\ []((mpc = "sleep" \/ sent_at >= 0 \/ (RunOver /\ mexit = 0)) => SentOnce)
\* main sleeps after the one send
C18_Witness == mpc = "sleep" /\ SentOnce /\ sent_at >= 0

\* the record a wildcard callback registered on the vehicle of thread t
\* appends for the message the thread is dispatching
RecordOf(t) ==
    [receiver |-> threads[t].veh, sender |-> threads[t].msg.src,
     type |-> TargetType, data |-> threads[t].msg.data]
\* the step appends to the log, from the reader thread t, through a callback
\* that was registered under "*" on the thread's vehicle, for a message of
\* the target type
AppendedBy(t) ==
    /\ reader_loop_callback(t)
    /\ threads[t].msg.type = TargetType
    /\ \E i \in DOMAIN Get(threads[t].snap, "*") :
          Get(threads[t].snap, "*")[i] = Head(threads[t].todo)
    /\ received' = Append(received, RecordOf(t))

\* C21: the log changes only by an append made by a reader thread through a
\* wildcard callback, for a message of the target type, tagged with the
\* thread's vehicle, and never by a step of main; main reads the log in one
\* step only, taken from its sleep after the one send returned, which it
\* cannot take again; that read yields 0 (PASS) exactly when the log is not
\* empty and 1 (FAIL) when it is empty.
C21_LogAndVerdict ==
    /\ [][ /\ received' # received =>
                (mpc' = mpc /\ \E t \in DOMAIN threads : AppendedBy(t))
           /\ MainInspect =>
                /\ mpc = "sleep" /\ sent_at >= 0 /\ SentOnce
                /\ received' = received
                /\ (mexit' = 0) <=> (received # <<>>)
                /\ (mexit' = 1) <=> (received = <<>>)
           /\ (mpc' = "sleep" /\ mpc # "sleep") => MainSleep
           /\ Leaving => Leaving'
         ]_vars
    /\ []((hargs = "run" /\ mexit = 0) => (Leaving /\ received # <<>> /\ SentOnce))
\* the read found, after the send, a log that holds a record of each vehicle,
\* and main goes to its finally block with 0
C21_Witness ==
    /\ mpc = "finally" /\ mexit = 0 /\ call["main"].op = "send_message"
    /\ \A v \in Vehicles : \E i \in DOMAIN received : received[i].receiver = v
\* the read found an empty log and main goes to its finally block with 1
C21_WitnessFail ==
    /\ mpc = "finally" /\ mexit = 1 /\ call["main"].op = "send_message"
    /\ received = <<>> /\ SentOnce

\* the step takes the next message off the open connection of the vehicle
Consumed(v) ==
    /\ conn[v] = "open" /\ conn'[v] = "open"
    /\ inbox[v] # <<>> /\ inbox'[v] = Tail(inbox[v])
\* the step is the receive of a running reader thread of the vehicle, which
\* goes on to call the callbacks registered for the message
DispatchedBy(v) ==
    \E t \in Running(v) :
        /\ reader_loop_recv(t)
        /\ threads'[t].pc = "dispatch"
        /\ threads'[t].msg = Head(inbox[v])
        /\ threads'[t].todo = DispatchList(callbacks[v], Head(inbox[v]).type)

\* C22: while a reader thread of a vehicle is running, every message taken
\* off the vehicle's connection is taken by that thread and handed to the
\* registered callbacks; no other step, and in particular no step of main
\* inside wait_heartbeat_from, consumes a message.
C22_NoConsumeWithoutDispatch ==
    [][ \A v \in DOMAIN conn : (Running(v) # {} /\ Consumed(v)) => DispatchedBy(v) ]_vars

====
